---- MODULE Spec2Model ----
(***************************************************************************)
(* Model of data/calculate_performance_metrics.py: the identifier          *)
(* tokenizer, the Levenshtein calculator, the single-prediction evaluator  *)
(* and the batch processor with its top-1 / top-5 selection, the main      *)
(* program around it, and of the GET with retries of                       *)
(* data/ground_truth/create_ground_truth_dataset.py.                       *)
(*                                                                         *)
(* Strings are sequences of one-character strings.  Python floats are      *)
(* modelled as exact rationals <<numerator, denominator>> in lowest terms  *)
(* with a positive denominator; float rounding is not modelled.            *)
(* JSON values are tagged records: [t |-> "null"], [t |-> "str", s |-> _], *)
(* [t |-> "num", n |-> _], [t |-> "list", items |-> _] and                 *)
(* [t |-> "dict", name |-> _], name being Absent for an object without it. *)
(***************************************************************************)
EXTENDS Integers, Sequences, FiniteSets, TLC

(***************************************************************************)
(* Character classes of the regular expressions used by the tokenizer.     *)
(***************************************************************************)
LowerLetters ==
  <<"a", "b", "c", "d", "e", "f", "g", "h", "i", "j", "k", "l", "m", "n",
    "o", "p", "q", "r", "s", "t", "u", "v", "w", "x", "y", "z">>
UpperLetters ==
  <<"A", "B", "C", "D", "E", "F", "G", "H", "I", "J", "K", "L", "M", "N",
    "O", "P", "Q", "R", "S", "T", "U", "V", "W", "X", "Y", "Z">>
\* [a-z]
AsciiLower == {LowerLetters[i] : i \in 1..Len(LowerLetters)}
\* [A-Z]
AsciiUpper == {UpperLetters[i] : i \in 1..Len(UpperLetters)}
\* [0-9]
AsciiDigit == {"0", "1", "2", "3", "4", "5", "6", "7", "8", "9"}
\* Letters and digits outside ASCII, which \w matches and [a-zA-Z0-9] does not
UnicodeLower == {"é"}
UnicodeUpper == {"É"}
UnicodeDigit == {"²"}
Underscore == {"_"}
Punctuation == {"$", "-", "."}
Whitespace == {" "}

\* [a-zA-Z]
AsciiLetter == AsciiLower \cup AsciiUpper
\* [a-z0-9]
AsciiLowerOrDigit == AsciiLower \cup AsciiDigit
\* \w of a Python str pattern: Unicode letters, Unicode digits, underscore
WordChar ==
  AsciiLetter \cup AsciiDigit \cup UnicodeLower \cup UnicodeUpper
    \cup UnicodeDigit \cup Underscore

\* str.lower() on one character
LowerChar(c) ==
  IF c \in AsciiUpper
  THEN LowerLetters[CHOOSE i \in 1..Len(UpperLetters) : UpperLetters[i] = c]
  ELSE IF c = "É" THEN "é" ELSE c

(***************************************************************************)
(* Rational arithmetic standing for float arithmetic.                      *)
(***************************************************************************)
Abs(n) == IF n < 0 THEN -n ELSE n

RECURSIVE GCD(_, _)
GCD(a, b) == IF b = 0 THEN a ELSE GCD(b, a % b)

\* n / d for d > 0, in lowest terms
Rat(n, d) ==
  IF n = 0 THEN <<0, 1>>
  ELSE LET g == GCD(Abs(n), d) IN <<n \div g, d \div g>>

Zero == <<0, 1>>
One == <<1, 1>>

RatAdd(x, y) == Rat(x[1] * y[2] + y[1] * x[2], x[2] * y[2])
RatSub(x, y) == Rat(x[1] * y[2] - y[1] * x[2], x[2] * y[2])
RatMul(x, y) == Rat(x[1] * y[1], x[2] * y[2])
\* x / y for y > 0
RatDiv(x, y) == Rat(x[1] * y[2], x[2] * y[1])
RatLess(x, y) == x[1] * y[2] < y[1] * x[2]
RatLeq(x, y) == x[1] * y[2] <= y[1] * x[2]

(***************************************************************************)
(* IdentifierTokenizer.tokenize                                            *)
(***************************************************************************)
\* re.sub(r'[^\w]', ' ', identifier)
ReplaceNonWord(s) ==
  [i \in 1..Len(s) |-> IF s[i] \in WordChar THEN s[i] ELSE " "]

\* clean_identifier.replace("_", " ")
ReplaceUnderscore(s) ==
  [i \in 1..Len(s) |-> IF s[i] = "_" THEN " " ELSE s[i]]

\* Variant: group 1 is [A-Z][A-Z]+, a run of at least two
AcronymGroupOfTwo(s, i) ==
  LET ks == {k \in 2..(Len(s) - i - 1) :
               /\ \A m \in i..(i + k) : s[m] \in AsciiUpper
               /\ s[i + k + 1] \in AsciiLower}
  IN IF ks = {} THEN 0 ELSE CHOOSE k \in ks : \A k2 \in ks : k2 <= k

\* Length of group 1 of ([A-Z]+)([A-Z][a-z]) matched at position i, 0 when
\* the pattern does not match there.  [A-Z]+ is greedy: the longest group 1
\* that still leaves an uppercase and a lowercase letter behind it.
AcronymGroup(s, i) ==
  LET ks == {k \in 1..(Len(s) - i - 1) :
               /\ \A m \in i..(i + k) : s[m] \in AsciiUpper
               /\ s[i + k + 1] \in AsciiLower}
  IN IF ks = {} THEN 0 ELSE CHOOSE k \in ks : \A k2 \in ks : k2 <= k

\* re.sub(r'([A-Z]+)([A-Z][a-z])', r'\1 \2', s): leftmost non-overlapping
\* matches, the scan resuming after each match.
RECURSIVE SplitAcronymsFrom(_, _)
SplitAcronymsFrom(s, i) ==
  IF i > Len(s) THEN <<>>
  ELSE LET k == AcronymGroup(s, i) IN
       IF k = 0 THEN <<s[i]>> \o SplitAcronymsFrom(s, i + 1)
       ELSE SubSeq(s, i, i + k - 1) \o <<" ">> \o SubSeq(s, i + k, i + k + 1)
              \o SplitAcronymsFrom(s, i + k + 2)

SplitAcronyms(s) == SplitAcronymsFrom(s, 1)

\* re.sub(r'([First])([Second])', r'\1 \2', s) for two one-character groups
RECURSIVE SplitPairsFrom(_, _, _, _)
SplitPairsFrom(s, i, First, Second) ==
  IF i > Len(s) THEN <<>>
  ELSE IF i < Len(s) /\ s[i] \in First /\ s[i + 1] \in Second
       THEN <<s[i], " ", s[i + 1]>> \o SplitPairsFrom(s, i + 2, First, Second)
       ELSE <<s[i]>> \o SplitPairsFrom(s, i + 1, First, Second)

\* re.sub(r'([a-z0-9])([A-Z])', r'\1 \2', s)
SplitCamelCase(s) == SplitPairsFrom(s, 1, AsciiLowerOrDigit, AsciiUpper)

\* re.sub(r'([0-9])([a-zA-Z])', ...) then re.sub(r'([a-zA-Z])([0-9])', ...)
SplitDigitLetter(s) ==
  SplitPairsFrom(SplitPairsFrom(s, 1, AsciiDigit, AsciiLetter), 1,
                 AsciiLetter, AsciiDigit)

\* [token.lower() for token in s.split()]: the maximal runs of
\* non-whitespace characters, lowercased.  cur is the token being read.
RECURSIVE SplitLowerFrom(_, _, _)
SplitLowerFrom(s, i, cur) ==
  IF i > Len(s) THEN (IF cur = <<>> THEN <<>> ELSE <<cur>>)
  ELSE IF s[i] \in Whitespace
       THEN (IF cur = <<>> THEN <<>> ELSE <<cur>>) \o SplitLowerFrom(s, i + 1, <<>>)
       ELSE SplitLowerFrom(s, i + 1, Append(cur, LowerChar(s[i])))

SplitLower(s) == SplitLowerFrom(s, 1, <<>>)

tokenize(identifier) ==
  IF identifier = <<>> THEN <<>>
  ELSE SplitLower(SplitDigitLetter(SplitCamelCase(SplitAcronyms(
         ReplaceUnderscore(ReplaceNonWord(identifier))))))

(***************************************************************************)
(* StringDistanceCalculator                                                *)
(***************************************************************************)
Min3(a, b, c) ==
  IF a <= b /\ a <= c THEN a ELSE IF b <= c THEN b ELSE c

Max2(a, b) == IF a >= b THEN a ELSE b

\* Variant: a substitution costs 1 also when the two characters are equal
RECURSIVE FillRowNoFreeMatch(_, _, _, _, _)
FillRowNoFreeMatch(previous_row, current_row, c1, s2, j) ==
  IF j >= Len(s2) THEN current_row
  ELSE LET insertions == previous_row[j + 2] + 1
           deletions == current_row[j + 1] + 1
           substitutions == previous_row[j + 1] + 1
       IN FillRowNoFreeMatch(previous_row,
                  Append(current_row, Min3(insertions, deletions, substitutions)),
                  c1, s2, j + 1)

\* The inner loop over s2: current_row grows by one cell per character c2.
\* Rows are 1-indexed here, so previous_row[j] of the code is previous_row[j + 1].
RECURSIVE FillRow(_, _, _, _, _)
FillRow(previous_row, current_row, c1, s2, j) ==
  IF j >= Len(s2) THEN current_row
  ELSE LET insertions == previous_row[j + 2] + 1
           deletions == current_row[j + 1] + 1
           substitutions == previous_row[j + 1] + (IF c1 # s2[j + 1] THEN 1 ELSE 0)
       IN FillRow(previous_row,
                  Append(current_row, Min3(insertions, deletions, substitutions)),
                  c1, s2, j + 1)

\* The outer loop over s1, i counted from 0 as by enumerate
RECURSIVE FillRows(_, _, _, _)
FillRows(previous_row, s1, s2, i) ==
  IF i >= Len(s1) THEN previous_row
  ELSE FillRows(FillRow(previous_row, <<i + 1>>, s1[i + 1], s2, 0), s1, s2, i + 1)

RECURSIVE calculate_levenshtein_distance(_, _)
calculate_levenshtein_distance(s1, s2) ==
  IF Len(s1) < Len(s2) THEN calculate_levenshtein_distance(s2, s1)
  ELSE IF Len(s2) = 0 THEN Len(s1)
  ELSE LET last_row == FillRows([j \in 1..(Len(s2) + 1) |-> j - 1], s1, s2, 0)
       IN last_row[Len(last_row)]

calculate_similarity(s1, s2) ==
  IF s1 = s2 THEN One
  ELSE LET max_length == Max2(Len(s1), Len(s2)) IN
       IF max_length = 0 THEN One
       ELSE RatSub(One, Rat(calculate_levenshtein_distance(s1, s2), max_length))

(***************************************************************************)
(* MetricResult and RenamePredictionEvaluator                              *)
(***************************************************************************)
MetricResult(em, es, tp, tr, f1) ==
  [exact_match |-> em, edit_similarity |-> es, token_precision |-> tp,
   token_recall |-> tr, token_f1 |-> f1]

\* Variant: an "empty" result that keeps a full edit similarity
EmptyMetricFullSimilarity == MetricResult(0, One, Zero, Zero, Zero)

\* MetricResult.empty()
EmptyMetric == MetricResult(0, Zero, Zero, Zero, Zero)

\* Counter(tokens)[t]
Count(tokens, t) == Cardinality({i \in 1..Len(tokens) : tokens[i] = t})

Min2(a, b) == IF a <= b THEN a ELSE b

\* Variant: the union | of the two counters in place of the intersection &
RECURSIVE SumOverUnion(_, _, _)
SumOverUnion(keys, gt_tokens, pred_tokens) ==
  IF keys = {} THEN 0
  ELSE LET t == CHOOSE k \in keys : TRUE IN
       Max2(Count(gt_tokens, t), Count(pred_tokens, t))
         + SumOverUnion(keys \ {t}, gt_tokens, pred_tokens)

\* Variant: a token counts once however often it occurs on both sides
SumOverOnce(keys, gt_tokens, pred_tokens) ==
  Cardinality({t \in keys : Count(gt_tokens, t) > 0 /\ Count(pred_tokens, t) > 0})

\* The sum of min(G[t], P[t]) over the tokens t in keys
RECURSIVE SumOver(_, _, _)
SumOver(keys, gt_tokens, pred_tokens) ==
  IF keys = {} THEN 0
  ELSE LET t == CHOOSE k \in keys : TRUE IN
       Min2(Count(gt_tokens, t), Count(pred_tokens, t))
         + SumOver(keys \ {t}, gt_tokens, pred_tokens)

\* sum((Counter(gt_tokens) & Counter(pred_tokens)).values())
intersection_total(gt_tokens, pred_tokens) ==
  SumOver({gt_tokens[i] : i \in 1..Len(gt_tokens)}, gt_tokens, pred_tokens)

\* sum(Counter(tokens).values())
CounterTotal(tokens) == Len(tokens)

calculate_exact_match(ground_truth, prediction) ==
  IF ground_truth = prediction THEN 1 ELSE 0

calculate_token_precision(inter, pred_total) ==
  IF pred_total = 0 THEN Zero ELSE Rat(inter, pred_total)

calculate_token_recall(inter, gt_total) ==
  IF gt_total = 0 THEN Zero ELSE Rat(inter, gt_total)

\* Variant: the arithmetic mean of precision and recall
TokenF1AsArithmeticMean(inter, pred_total, gt_total) ==
  IF gt_total = 0 /\ pred_total = 0 THEN One
  ELSE LET p == calculate_token_precision(inter, pred_total)
           r == calculate_token_recall(inter, gt_total)
       IN IF RatAdd(p, r) = Zero THEN Zero
          ELSE RatDiv(RatAdd(p, r), <<2, 1>>)

calculate_token_f1(inter, pred_total, gt_total) ==
  IF gt_total = 0 /\ pred_total = 0 THEN One
  ELSE LET p == calculate_token_precision(inter, pred_total)
           r == calculate_token_recall(inter, gt_total)
       IN IF RatAdd(p, r) = Zero THEN Zero
          ELSE RatDiv(RatMul(<<2, 1>>, RatMul(p, r)), RatAdd(p, r))

\* RenamePredictionEvaluator(ground_truth, prediction).evaluate()
evaluate(ground_truth, prediction) ==
  LET gt_tokens_list == tokenize(ground_truth)
      pred_tokens_list == tokenize(prediction)
      inter == intersection_total(gt_tokens_list, pred_tokens_list)
      pred_total == CounterTotal(pred_tokens_list)
      gt_total == CounterTotal(gt_tokens_list)
  IN MetricResult(calculate_exact_match(ground_truth, prediction),
                  calculate_similarity(ground_truth, prediction),
                  calculate_token_precision(inter, pred_total),
                  calculate_token_recall(inter, gt_total),
                  calculate_token_f1(inter, pred_total, gt_total))

(***************************************************************************)
(* JSON values of the input document                                       *)
(***************************************************************************)
Absent == [t |-> "absent"]
Null == [t |-> "null"]
JStr(chars) == [t |-> "str", s |-> chars]
JNum(k) == [t |-> "num", n |-> k]
JList(elems) == [t |-> "list", items |-> elems]
\* A JSON object read as a suggestion; name is Absent when it has no "name"
JDict(nm) == [t |-> "dict", name |-> nm]
\* One entry of "results" that is a JSON object; an entry may also be Null
Item(nn, sg) ==
  [t |-> "record", new_name |-> nn, suggestions |-> sg,
   performance_metrics |-> Absent]

RECURSIVE Decimal(_)
Decimal(k) ==
  LET digit == <<"0", "1", "2", "3", "4", "5", "6", "7", "8", "9">>[(k % 10) + 1]
  IN IF k < 10 THEN <<digit>> ELSE Append(Decimal(k \div 10), digit)

\* str(value) for the strings and non-negative integers of a document
Str(value) ==
  CASE value.t = "str" -> value.s
    [] value.t = "num" -> Decimal(value.n)

(***************************************************************************)
(* BatchResultProcessor                                                    *)
(***************************************************************************)
VARIABLES
  results,           \* self.results, annotated in place
  index,             \* number of items the loop of process has handled
  pc,                \* "loop" while process iterates, "done" after it returns,
                     \* "raised" when it was left by an exception
  accumulators,      \* self.accumulators
  aggregates,        \* the averages process returns, Absent before that
  final_output,      \* the structure process returns first, Absent before that
  run,               \* number of processors constructed on the document
  first_output,      \* the records and averages the first run left
  warnings,          \* the warnings printed so far
  ground_truth,      \* locals of the last iteration of the loop
  top_1_metric,
  valid_candidates,
  top_5_results,
  top_5_choice,      \* position in top_5_results of the object returned as best
  top_5_metric,
  file,              \* main: what lies at file_path
  main_pc,           \* main: "start", "try", "process", "exited"; "idle" when
                     \* process is called without main
  exit_status,       \* main: the exit status of the program, -1 while it runs
  reported,          \* main: the last condition printed
  output_file,       \* main: the content of the output file, Absent if none
  identifier,        \* tokenize: its argument
  tok_pc,            \* tokenize: "call", "returned"; "idle" when not called
  tokens,            \* tokenize: the list returned
  req_pc,            \* request: "loop", "returned", "raised"; "idle" when not called
  attempt,           \* request: the loop variable, max_retries after the loop
  outcomes,          \* request: what each GET so far ended in
  waits,             \* request: what each attempt so far slept, 0 for no sleep
  returned,          \* request: the value returned, Absent before
  time_now           \* request: int(time.time()) when the reset header is read

processor_vars ==
  <<results, index, pc, accumulators, aggregates, final_output, run,
    first_output, warnings, ground_truth, top_1_metric, valid_candidates,
    top_5_results, top_5_choice, top_5_metric>>

main_vars == <<file, main_pc, exit_status, reported, output_file>>

tokenizer_vars == <<identifier, tok_pc, tokens>>

request_vars == <<req_pc, attempt, outcomes, waits, returned, time_now>>

vars == <<processor_vars, main_vars, tokenizer_vars, request_vars>>

\* limit=5 in the call of _extract_valid_candidates
TopKLimit == 5

init_zero_metrics ==
  [exact_match |-> 0, edit_similarity |-> Zero, token_precision |-> Zero,
   token_recall |-> Zero, token_f1 |-> Zero]

\* Variant: a truthiness test of the name, which rejects "" and 0
IsValidByTruthiness(suggestion) ==
  /\ suggestion.t = "dict"
  /\ suggestion.name.t # "absent"
  /\ suggestion.name.t # "null"
  /\ suggestion.name # JStr(<<>>)
  /\ suggestion.name # JNum(0)

_is_valid_suggestion(suggestion) ==
  /\ suggestion.t = "dict"
  /\ suggestion.name.t # "absent"
  /\ suggestion.name.t # "null"

\* The warning _is_valid_suggestion prints with warn=True, <<>> when none
SuggestionWarning(suggestion, item_index, sugg_index) ==
  IF suggestion.t = "dict" /\ suggestion.name.t # "absent"
  THEN (IF suggestion.name.t # "null" THEN <<>>
        ELSE <<[kind |-> "null_name", item |-> item_index, suggestion |-> sugg_index]>>)
  ELSE <<[kind |-> "malformed", item |-> item_index, suggestion |-> sugg_index]>>

\* suggestions[:limit]
Prefix(seq, limit) == SubSeq(seq, 1, Min2(limit, Len(seq)))

RECURSIVE ValidNames(_, _)
ValidNames(suggs, i) ==
  IF i > Len(suggs) THEN <<>>
  ELSE IF _is_valid_suggestion(suggs[i])
       THEN <<Str(suggs[i].name)>> \o ValidNames(suggs, i + 1)
       ELSE ValidNames(suggs, i + 1)

\* Variant: scan the whole list and stop after limit valid names
ExtractScanningWholeList(suggestions, limit) ==
  IF suggestions.t # "list" THEN <<>>
  ELSE Prefix(ValidNames(suggestions.items, 1), limit)

_extract_valid_candidates(suggestions, limit) ==
  IF suggestions.t # "list" THEN <<>>
  ELSE ValidNames(Prefix(suggestions.items, limit), 1)

\* Python's tuple comparison a > b of the selection keys
\* (token_f1, exact_match, edit_similarity, token_precision)
KeyGreater(a, b) ==
  \/ RatLess(b.token_f1, a.token_f1)
  \/ /\ a.token_f1 = b.token_f1
     /\ \/ a.exact_match > b.exact_match
        \/ /\ a.exact_match = b.exact_match
           /\ \/ RatLess(b.edit_similarity, a.edit_similarity)
              \/ /\ a.edit_similarity = b.edit_similarity
                 /\ RatLess(b.token_precision, a.token_precision)

\* Variant: the running maximum is also replaced by an equal key, so the
\* last of several maximal candidates is returned
RECURSIVE MaxFromLastWins(_, _, _)
MaxFromLastWins(res, best, i) ==
  IF i > Len(res) THEN best
  ELSE IF ~KeyGreater(res[best], res[i]) THEN MaxFromLastWins(res, i, i + 1)
       ELSE MaxFromLastWins(res, best, i + 1)

\* max(results, key=...): the running maximum is replaced only by a strictly
\* greater key.  best is the position of the running maximum.
RECURSIVE MaxFrom(_, _, _)
MaxFrom(res, best, i) ==
  IF i > Len(res) THEN best
  ELSE IF KeyGreater(res[i], res[best]) THEN MaxFrom(res, i, i + 1)
       ELSE MaxFrom(res, best, i + 1)

\* Variant: the first candidate is returned whatever the others score
BestPositionFirst(res) == IF res = <<>> THEN 0 ELSE 1

\* Position of the object _determine_best_candidate returns, 0 when it
\* returns a new MetricResult.empty()
BestPosition(res) == IF res = <<>> THEN 0 ELSE MaxFrom(res, 1, 2)

\* Variant: the last candidate is returned whatever the others score
DetermineLastCandidate(res) ==
  IF res = <<>> THEN EmptyMetric ELSE res[Len(res)]

_determine_best_candidate(res) ==
  IF res = <<>> THEN EmptyMetric ELSE res[BestPosition(res)]

\* Variant: the recall sum grows by the precision
UpdateAccumulatorRecallSlip(acc, metric) ==
  [exact_match |-> acc.exact_match + metric.exact_match,
   edit_similarity |-> RatAdd(acc.edit_similarity, metric.edit_similarity),
   token_precision |-> RatAdd(acc.token_precision, metric.token_precision),
   token_recall |-> RatAdd(acc.token_recall, metric.token_precision),
   token_f1 |-> RatAdd(acc.token_f1, metric.token_f1)]

_update_accumulator(acc, metric) ==
  [exact_match |-> acc.exact_match + metric.exact_match,
   edit_similarity |-> RatAdd(acc.edit_similarity, metric.edit_similarity),
   token_precision |-> RatAdd(acc.token_precision, metric.token_precision),
   token_recall |-> RatAdd(acc.token_recall, metric.token_recall),
   token_f1 |-> RatAdd(acc.token_f1, metric.token_f1)]

\* get_avg_dict: every accumulated field divided by total_items
AvgDict(acc, total_items) ==
  [exact_match |-> Rat(acc.exact_match, total_items),
   edit_similarity |-> RatDiv(acc.edit_similarity, <<total_items, 1>>),
   token_precision |-> RatDiv(acc.token_precision, <<total_items, 1>>),
   token_recall |-> RatDiv(acc.token_recall, <<total_items, 1>>),
   token_f1 |-> RatDiv(acc.token_f1, <<total_items, 1>>)]

ZeroAverages ==
  [exact_match |-> Zero, edit_similarity |-> Zero, token_precision |-> Zero,
   token_recall |-> Zero, token_f1 |-> Zero]

_calculate_final_averages(accs, total_items) ==
  IF total_items = 0
  THEN [top_1_performance_metrics |-> ZeroAverages,
        top_5_performance_metrics |-> ZeroAverages]
  ELSE [top_1_performance_metrics |-> AvgDict(accs.top_1, total_items),
        top_5_performance_metrics |-> AvgDict(accs.top_5, total_items)]

\* Variant: str(raw_gt_val) without the test for None
NormalizeWithoutNoneTest(raw_gt_val) ==
  IF raw_gt_val.t # "null" THEN Str(raw_gt_val) ELSE <<"N", "o", "n", "e">>

\* ground_truth = str(raw_gt_val) if raw_gt_val is not None else ""
NormalizeGroundTruth(raw_gt_val) ==
  IF raw_gt_val.t # "null" THEN Str(raw_gt_val) ELSE <<>>

\* Variant: a suggestions value that is not a list also raises
ItemRaisesOnNonList(item) ==
  item.t # "record" \/ item.suggestions.t \notin {"list", "absent"}

\* The loop body raises on this entry: item.get of an entry that is not an
\* object is an AttributeError
ItemRaises(item) == item.t # "record"

\* One iteration of the loop of process, on results[index + 1]
ProcessItem ==
  /\ pc = "loop"
  /\ index < Len(results)
  /\ IF ItemRaises(results[index + 1])
     THEN /\ pc' = "raised"
          /\ UNCHANGED <<results, index, accumulators, warnings, ground_truth,
                         top_1_metric, valid_candidates, top_5_results,
                         top_5_choice, top_5_metric>>
     ELSE
       LET item == results[index + 1]
           raw_gt_val == IF item.new_name.t = "absent" THEN Null ELSE item.new_name
           gt == NormalizeGroundTruth(raw_gt_val)
           raw_suggestions ==
             IF item.suggestions.t = "absent" THEN JList(<<>>) ELSE item.suggestions
           has_first == raw_suggestions.t = "list" /\ Len(raw_suggestions.items) > 0
           top_1 ==
             IF has_first /\ _is_valid_suggestion(raw_suggestions.items[1])
             THEN evaluate(gt, Str(raw_suggestions.items[1].name))
             ELSE EmptyMetric
           candidates == _extract_valid_candidates(raw_suggestions, TopKLimit)
           top_5 == [i \in 1..Len(candidates) |-> evaluate(gt, candidates[i])]
           best == _determine_best_candidate(top_5)
       IN /\ ground_truth' = gt
          /\ top_1_metric' = top_1
          /\ valid_candidates' = candidates
          /\ top_5_results' = top_5
          /\ top_5_choice' = BestPosition(top_5)
          /\ top_5_metric' = best
          /\ warnings' =
               IF has_first
               THEN warnings \o SuggestionWarning(raw_suggestions.items[1], index, 0)
               ELSE warnings
          /\ results' =
               [results EXCEPT ![index + 1].performance_metrics =
                  [t |-> "metrics",
                   top_1_performance_metrics |-> top_1,
                   top_5_performance_metrics |-> best]]
          /\ accumulators' =
               [top_1 |-> _update_accumulator(accumulators.top_1, top_1),
                top_5 |-> _update_accumulator(accumulators.top_5, best)]
          /\ index' = index + 1
          /\ pc' = pc
  /\ UNCHANGED <<aggregates, final_output, run, first_output>>
  /\ UNCHANGED <<main_vars, tokenizer_vars, request_vars>>

\* final_output = {"aggregate_performance_metrics": aggregates}
FinalOutput(aggs) == [aggregate_performance_metrics |-> aggs]

\* The end of process: the loop is over and the averages are returned
Finish ==
  /\ pc = "loop"
  /\ index = Len(results)
  /\ aggregates' = _calculate_final_averages(accumulators, Len(results))
  /\ final_output' = FinalOutput(aggregates')
  /\ pc' = "done"
  /\ UNCHANGED <<results, index, accumulators, run, first_output, warnings,
                 ground_truth, top_1_metric, valid_candidates, top_5_results,
                 top_5_choice, top_5_metric>>
  /\ UNCHANGED <<main_vars, tokenizer_vars, request_vars>>

Next == ProcessItem \/ Finish

\* self.accumulators of a new BatchResultProcessor
NewAccumulators == [top_1 |-> init_zero_metrics, top_5 |-> init_zero_metrics]

\* The processor variables for the document whose "results" is doc: state
\* is "loop" once BatchResultProcessor(json_data) is constructed, "idle"
\* where none is
ProcessorAt(state, doc) ==
  /\ results = doc
  /\ index = 0
  /\ pc = state
  /\ accumulators = NewAccumulators
  /\ aggregates = Absent
  /\ final_output = Absent
  /\ run = 1
  /\ first_output = Absent
  /\ warnings = <<>>
  /\ ground_truth = <<>>
  /\ top_1_metric = EmptyMetric
  /\ valid_candidates = <<>>
  /\ top_5_results = <<>>
  /\ top_5_choice = 0
  /\ top_5_metric = EmptyMetric

\* main is not run
MainIdle ==
  /\ file = Absent
  /\ main_pc = "idle"
  /\ exit_status = -1
  /\ reported = ""
  /\ output_file = Absent

\* tokenize is not called on its own
TokenizerIdle ==
  /\ identifier = <<>>
  /\ tok_pc = "idle"
  /\ tokens = <<>>

\* _make_request_with_retries is not called
RequestIdle ==
  /\ req_pc = "idle"
  /\ attempt = 0
  /\ outcomes = <<>>
  /\ waits = <<>>
  /\ returned = Absent
  /\ time_now = 0

\* The state after BatchResultProcessor(json_data) for the document whose
\* "results" is doc
InitWith(doc) ==
  /\ ProcessorAt("loop", doc)
  /\ MainIdle
  /\ TokenizerIdle
  /\ RequestIdle

\* Number of runs over one document
MaxRuns == 2

\* Variant: process is entered again with the sums of the earlier run
RerunKeepingSums ==
  /\ pc = "done"
  /\ run < MaxRuns
  /\ run' = run + 1
  /\ first_output' =
       IF run = 1 THEN [results |-> results, aggregates |-> aggregates]
       ELSE first_output
  /\ index' = 0
  /\ pc' = "loop"
  /\ aggregates' = Absent
  /\ final_output' = Absent
  /\ UNCHANGED <<results, accumulators, warnings, ground_truth, top_1_metric,
                 valid_candidates, top_5_results, top_5_choice, top_5_metric>>
  /\ UNCHANGED <<main_vars, tokenizer_vars, request_vars>>

\* A second run over the document the first run annotated in memory: a new
\* BatchResultProcessor on the same data, whose process is then called
Rerun ==
  /\ pc = "done"
  /\ run < MaxRuns
  /\ run' = run + 1
  /\ first_output' =
       IF run = 1 THEN [results |-> results, aggregates |-> aggregates]
       ELSE first_output
  /\ index' = 0
  /\ pc' = "loop"
  /\ accumulators' = NewAccumulators
  /\ aggregates' = Absent
  /\ final_output' = Absent
  /\ UNCHANGED <<results, warnings, ground_truth, top_1_metric,
                 valid_candidates, top_5_results, top_5_choice, top_5_metric>>
  /\ UNCHANGED <<main_vars, tokenizer_vars, request_vars>>

NextRerun == ProcessItem \/ Finish \/ Rerun

(***************************************************************************)
(* Input documents                                                         *)
(***************************************************************************)
\* All sequences over S of length at most n
RECURSIVE SeqsUpTo(_, _)
SeqsUpTo(S, n) ==
  IF n = 0 THEN {<<>>}
  ELSE LET shorter == SeqsUpTo(S, n - 1)
       IN shorter \cup {Append(q, x) : q \in {r \in shorter : Len(r) = n - 1}, x \in S}

\* Documents of one record with a long, partly malformed suggestion list
MaxSuggestions == 6
TopKGroundTruths == {JStr(<<"a", "0">>)}
TopKSuggestions ==
  {Null, JDict(Absent), JDict(Null), JDict(JStr(<<"0">>)), JDict(JStr(<<>>))}
TopKSuggestionValues ==
  {Absent, Null, JStr(<<"a", "0">>)}
    \cup {JList(q) : q \in SeqsUpTo(TopKSuggestions, MaxSuggestions)}

InitTopK ==
  \E nn \in TopKGroundTruths, sg \in TopKSuggestionValues :
    InitWith(<<Item(nn, sg)>>)

SpecTopK == InitTopK /\ [][Next]_vars

\* Documents of one record with a short list of varied suggestions
MaxEntries == 3
RecordGroundTruths == {Absent, Null, JStr(<<"a", "B">>), JNum(0)}
RecordNames ==
  {JStr(<<"a", "B">>), JStr(<<"a", "_", "b">>), JStr(<<"a", "b">>),
   JStr(<<"A", "B">>), JStr(<<"a">>), JStr(<<>>), JNum(0)}
RecordSuggestions ==
  {Null, JDict(Absent), JDict(Null)} \cup {JDict(nm) : nm \in RecordNames}
RecordSuggestionValues ==
  {Absent, Null} \cup {JList(q) : q \in SeqsUpTo(RecordSuggestions, MaxEntries)}

InitRecord ==
  \E nn \in RecordGroundTruths, sg \in RecordSuggestionValues :
    InitWith(<<Item(nn, sg)>>)

SpecRecord == InitRecord /\ [][Next]_vars

\* Documents of one record with one suggestion: every pair of short strings
MaxLen == 3
PairAlphabet == {"a", "A", "_"}
PairStrings == SeqsUpTo(PairAlphabet, MaxLen)

InitPair ==
  \E nn \in {Absent, Null} \cup {JStr(g) : g \in PairStrings}, p \in PairStrings :
    InitWith(<<Item(nn, JList(<<JDict(JStr(p))>>))>>)

SpecPair == InitPair /\ [][Next]_vars

\* Documents of several records
MaxRecords == 3
BatchRecords ==
  {Item(JStr(<<"a", "B">>), JList(<<JDict(JStr(<<"a", "B">>)), JDict(JStr(<<"a">>))>>)),
   Item(JStr(<<"a", "B">>), JList(<<JDict(JStr(<<"a">>)), JDict(JStr(<<"a", "_", "b">>))>>)),
   Item(JStr(<<"a", "B">>), JList(<<JDict(Null), JDict(JStr(<<"a", "B">>))>>)),
   Item(JStr(<<"a", "a", "1">>), JList(<<JDict(JStr(<<"a", "1">>)), Null>>)),
   Item(Null, JList(<<JDict(JStr(<<>>))>>)),
   Item(Absent, Absent),
   Item(JNum(0), Null),
   Item(JStr(<<"a">>), JStr(<<"a">>)),
   Item(JStr(<<"a">>), JList(<<JStr(<<"a">>), JDict(Absent), JDict(JStr(<<"a">>))>>)),
   Null}

Init == \E doc \in SeqsUpTo(BatchRecords, MaxRecords) : InitWith(doc)

Spec == Init /\ [][Next]_vars

\* The same documents, processed again after the first run
SpecRerun == Init /\ [][NextRerun]_vars

(***************************************************************************)
(* tokenize called on its own                                              *)
(***************************************************************************)

\* Identifiers: a lowercase and an uppercase ASCII letter, an ASCII digit, a
\* letter outside ASCII, the underscore
MaxIdLen == 4
TokAlphabet == {"a", "A", "1", "é", "_"}

\* IdentifierTokenizer.tokenize(identifier)
Tokenize ==
  /\ tok_pc = "call"
  /\ tokens' = tokenize(identifier)
  /\ tok_pc' = "returned"
  /\ UNCHANGED <<identifier, processor_vars, main_vars, request_vars>>

NextTokenize == Tokenize

InitTokenize ==
  /\ identifier \in SeqsUpTo(TokAlphabet, MaxIdLen)
  /\ tok_pc = "call"
  /\ tokens = <<>>
  /\ ProcessorAt("idle", <<>>)
  /\ MainIdle
  /\ RequestIdle

SpecTokenize == InitTokenize /\ [][NextTokenize]_vars

(***************************************************************************)
(* GitHubAPIClient._make_request_with_retries                              *)
(***************************************************************************)

max_retries == 3

\* The x-ratelimit-reset header of a response: None, or a text of digits
\* and other characters
MaxHeaderLen == 2
HeaderAlphabet == {"1", "x"}
ResetHeaders == {Absent} \cup {JStr(h) : h \in SeqsUpTo(HeaderAlphabet, MaxHeaderLen)}

\* int(time.time()) when the header is read
Clocks == {5, 20}

\* What one requests.get can end in: a response with a status code, or a
\* requests.exceptions.RequestException
Response(status, reset) == [t |-> "response", status_code |-> status, reset |-> reset]
NetworkError == [t |-> "network_error"]
Outcomes ==
  {NetworkError, Response(200, Absent), Response(404, Absent)}
  \cup {Response(403, h) : h \in ResetHeaders}

\* The attempt is followed by another one: a 403 or a RequestException
Retriable(outcome) ==
  outcome.t = "network_error" \/ outcome.status_code = 403

\* int(reset_time_str) is defined: the text is a decimal numeral
IsNumeral(h) == Len(h) > 0 /\ \A i \in 1..Len(h) : h[i] \in AsciiDigit

\* The value of one decimal digit
DigitValue(c) ==
  CHOOSE d \in 0..9 : <<"0", "1", "2", "3", "4", "5", "6", "7", "8", "9">>[d + 1] = c

\* int(reset_time_str) for a numeral
RECURSIVE ParseInt(_)
ParseInt(h) ==
  IF h = <<>> THEN 0
  ELSE 10 * ParseInt(SubSeq(h, 1, Len(h) - 1)) + DigitValue(h[Len(h)])

\* if reset_time_str: the header is there and is not the empty text
HeaderGiven(reset) == reset.t = "str" /\ reset.s # <<>>

\* _handle_rate_limit_wait raises: int() of a header that is no numeral
RateLimitWaitRaises(response, is_final_attempt) ==
  /\ is_final_attempt
  /\ HeaderGiven(response.reset)
  /\ ~IsNumeral(response.reset.s)

\* The seconds _handle_rate_limit_wait sleeps
_handle_rate_limit_wait(response, is_final_attempt, now) ==
  IF is_final_attempt
  THEN IF HeaderGiven(response.reset)
       THEN Max2(1, ParseInt(response.reset.s) - now + 5)
       ELSE 3605
  ELSE 61

\* Variant: every failed attempt is followed by a wait
WaitsAfterEvery(a) == a < max_retries

\* if attempt < max_retries - 1: a failed attempt other than the last waits
WaitsAfter(a) == a < max_retries - 1

\* The loop goes to its next iteration, or ends and None is returned
NextIteration ==
  /\ attempt' = attempt + 1
  /\ IF attempt + 1 < max_retries
     THEN req_pc' = "loop" /\ returned' = returned
     ELSE req_pc' = "returned" /\ returned' = Null

\* One requests.get of the loop and what the body does with its outcome,
\* up to the call of time.sleep
Get ==
  /\ req_pc = "loop"
  /\ attempt < max_retries
  /\ \E outcome \in Outcomes :
       /\ outcomes' = Append(outcomes, outcome)
       /\ IF ~Retriable(outcome)
          THEN /\ returned' = outcome
               /\ req_pc' = "returned"
               /\ UNCHANGED <<attempt, waits>>
          ELSE IF ~WaitsAfter(attempt)
          THEN /\ NextIteration
               /\ UNCHANGED waits
          ELSE IF outcome.t = "network_error"
          THEN /\ waits' = Append(waits, 15)
               /\ req_pc' = "sleeping"
               /\ UNCHANGED <<attempt, returned>>
          ELSE IF RateLimitWaitRaises(outcome, attempt = max_retries - 2)
          THEN /\ req_pc' = "raised"
               /\ UNCHANGED <<attempt, waits, returned>>
          ELSE /\ waits' =
                    Append(waits,
                           _handle_rate_limit_wait(outcome, attempt = max_retries - 2,
                                                   time_now))
               /\ req_pc' = "sleeping"
               /\ UNCHANGED <<attempt, returned>>
  /\ UNCHANGED <<time_now, processor_vars, main_vars, tokenizer_vars>>

\* time.sleep returns
Wake ==
  /\ req_pc = "sleeping"
  /\ NextIteration
  /\ UNCHANGED <<outcomes, waits, time_now, processor_vars, main_vars,
                 tokenizer_vars>>

NextRequest == Get \/ Wake

InitRequest ==
  /\ req_pc = "loop"
  /\ attempt = 0
  /\ outcomes = <<>>
  /\ waits = <<>>
  /\ returned = Absent
  /\ time_now \in Clocks
  /\ ProcessorAt("idle", <<>>)
  /\ MainIdle
  /\ TokenizerIdle

SpecRequest == InitRequest /\ [][NextRequest]_vars

\* Every requests.get ends in a response or an exception, every sleep ends
FairSpecRequest == SpecRequest /\ WF_vars(Get) /\ WF_vars(Wake)

(***************************************************************************)
(* main: the command line program around process                           *)
(***************************************************************************)

\* What main can find at file_path: nothing, a file that cannot be opened or
\* decoded as text, text that is not JSON, a JSON object without "results",
\* or a document
MainFiles ==
  {[t |-> "missing"], [t |-> "unreadable"], [t |-> "invalid_json"],
   [t |-> "no_results"]}
  \cup {[t |-> "document", results |-> doc] :
          doc \in SeqsUpTo(BatchRecords, MaxRecords)}

\* main leaves by the end of the function after an except clause printed
MainCaught(message) ==
  /\ reported' = message
  /\ exit_status' = 0
  /\ main_pc' = "exited"

\* The test of json_file_path.exists()
MainStart ==
  /\ main_pc = "start"
  /\ IF file.t = "missing"
     THEN /\ reported' = "does not exist"
          /\ exit_status' = 1
          /\ main_pc' = "exited"
     ELSE /\ main_pc' = "try"
          /\ UNCHANGED <<reported, exit_status>>
  /\ UNCHANGED <<file, output_file, processor_vars, tokenizer_vars, request_vars>>

\* open, json.load, the test for "results" and BatchResultProcessor(data)
MainLoad ==
  /\ main_pc = "try"
  /\ CASE file.t = "unreadable" ->
            /\ MainCaught("An unexpected error occurred")
            /\ UNCHANGED processor_vars
       [] file.t = "invalid_json" ->
            /\ MainCaught("Failed to decode JSON")
            /\ UNCHANGED processor_vars
       [] file.t = "no_results" ->
            /\ MainCaught("An unexpected error occurred: must contain results")
            /\ UNCHANGED processor_vars
       [] file.t = "document" ->
            /\ main_pc' = "process"
            /\ results' = file.results
            /\ pc' = "loop"
            /\ UNCHANGED <<reported, exit_status, index, accumulators,
                           aggregates, final_output, run, first_output,
                           warnings, ground_truth, top_1_metric,
                           valid_candidates, top_5_results, top_5_choice,
                           top_5_metric>>
  /\ UNCHANGED <<file, output_file, tokenizer_vars, request_vars>>

\* After process returned: the averages are printed and final_json_structure
\* is dumped to the output file
MainWrite ==
  /\ main_pc = "process"
  /\ pc = "done"
  /\ output_file' = final_output
  /\ reported' = "Detailed results saved"
  /\ exit_status' = 0
  /\ main_pc' = "exited"
  /\ UNCHANGED <<file, processor_vars, tokenizer_vars, request_vars>>

\* process raised: except Exception prints it
MainCatch ==
  /\ main_pc = "process"
  /\ pc = "raised"
  /\ MainCaught("An unexpected error occurred")
  /\ UNCHANGED <<file, output_file, processor_vars, tokenizer_vars, request_vars>>

NextMain ==
  MainStart \/ MainLoad \/ ProcessItem \/ Finish \/ MainWrite \/ MainCatch

InitMain ==
  /\ file \in MainFiles
  /\ main_pc = "start"
  /\ exit_status = -1
  /\ reported = ""
  /\ output_file = Absent
  /\ ProcessorAt("idle", <<>>)
  /\ TokenizerIdle
  /\ RequestIdle

SpecMain == InitMain /\ [][NextMain]_vars

(***************************************************************************)
(* Properties                                                              *)
(***************************************************************************)
\* The record the last iteration of the loop handled (index >= 1)
LastItem == results[index]

\* The raw suggestion entries of a record, <<>> when "suggestions" is absent
\* or is not a list
EntriesOf(item) ==
  IF item.suggestions.t = "list" THEN item.suggestions.items ELSE <<>>

\* An entry is an object with a present, non-null name
ValidEntry(e) == e.t = "dict" /\ e.name.t \notin {"absent", "null"}

\* Positions of the valid entries among the first n entries
ValidPositions(entries, n) ==
  {i \in 1..Len(entries) : i <= n /\ ValidEntry(entries[i])}

\* names lists, in rank order, exactly the names at the positions pos
ListsNamesAt(names, entries, pos) ==
  /\ Len(names) = Cardinality(pos)
  /\ \A i \in pos :
       names[Cardinality({j \in pos : j <= i})] = Str(entries[i].name)

\* C1 as stated: the candidates evaluated are the first min(5, number of
\* valid entries) valid entries of the whole suggestion list, also those at
\* index 5 or later.
C1_FirstFiveValidOfWholeList ==
  index >= 1 =>
    LET entries == EntriesOf(LastItem)
        all == ValidPositions(entries, Len(entries))
    IN ListsNamesAt(valid_candidates, entries,
                    {i \in all : Cardinality({j \in all : j <= i}) <= TopKLimit})

\* C1 amended: the candidates evaluated are exactly the valid entries among
\* the first 5 entries of the suggestion list, in rank order; an entry at
\* index 5 or later is never a candidate.
C1_ValidAmongFirstFive ==
  index >= 1 =>
    LET entries == EntriesOf(LastItem)
    IN ListsNamesAt(valid_candidates, entries, ValidPositions(entries, TopKLimit))

\* C1 witness: a processed list with an invalid entry among its first five
\* entries and a valid entry after them
C1_Witness ==
  /\ index >= 1
  /\ LET entries == EntriesOf(LastItem)
     IN /\ Len(entries) > TopKLimit
        /\ \E i \in 1..TopKLimit : ~ValidEntry(entries[i])
        /\ \E i \in (TopKLimit + 1)..Len(entries) : ValidEntry(entries[i])
        /\ valid_candidates # <<>>

\* The selection key (token_f1, exact_match, edit_similarity, token_precision)
KeyOf(m) ==
  <<m.token_f1, <<m.exact_match, 1>>, m.edit_similarity, m.token_precision>>

\* Lexicographic order on keys: a differs from b first at a place where it
\* is greater
LexGreater(a, b) ==
  \E k \in 1..4 :
    /\ RatLess(b[k], a[k])
    /\ \A h \in 1..(k - 1) : a[h] = b[h]

\* C2: for a non-empty list of evaluated candidates the tuple returned is
\* maximal under the key (token_f1, exact_match, edit_similarity,
\* token_precision), and of several candidates with the maximal key the
\* first in rank order is the one returned.
C2_BestIsFirstMaximum ==
  (index >= 1 /\ top_5_results # <<>>) =>
    /\ top_5_choice \in 1..Len(top_5_results)
    /\ top_5_metric = top_5_results[top_5_choice]
    /\ LastItem.performance_metrics.top_5_performance_metrics = top_5_metric
    /\ \A j \in 1..Len(top_5_results) :
         ~LexGreater(KeyOf(top_5_results[j]), KeyOf(top_5_metric))
    /\ \A j \in 1..(top_5_choice - 1) :
         LexGreater(KeyOf(top_5_metric), KeyOf(top_5_results[j]))

\* C2 witness: two candidates of different names share the maximal key, a
\* candidate of smaller key stands before them
C2_Witness ==
  /\ index >= 1
  /\ top_5_choice = 2
  /\ Len(top_5_results) = 3
  /\ KeyOf(top_5_results[3]) = KeyOf(top_5_results[2])
  /\ valid_candidates[3] # valid_candidates[2]

\* C3: whenever a candidate whose name equals the ground truth is among the
\* evaluated candidates, the top-5 tuple has exact_match = 1 and
\* token_f1 = 1, wherever that candidate stands and whatever the others are.
C3_OracleFindsExactMatch ==
  (index >= 1 /\ \E i \in 1..Len(valid_candidates) : valid_candidates[i] = ground_truth) =>
    /\ top_5_metric.exact_match = 1
    /\ top_5_metric.token_f1 = One
    /\ LastItem.performance_metrics.top_5_performance_metrics.exact_match = 1
    /\ LastItem.performance_metrics.top_5_performance_metrics.token_f1 = One

\* C3 witness: the candidate equal to the ground truth stands last, behind a
\* candidate that also has token_f1 = 1 and one that has not
C3_Witness ==
  /\ index >= 1
  /\ Len(valid_candidates) = 3
  /\ valid_candidates[3] = ground_truth
  /\ valid_candidates[1] # ground_truth
  /\ valid_candidates[2] # ground_truth
  /\ top_5_results[1].token_f1 # One
  /\ top_5_results[2].token_f1 = One
  /\ top_5_metric.exact_match = 1

\* The ground truth of a record: "" for a null or absent new_name
GroundTruthOf(item) ==
  IF item.new_name.t \in {"absent", "null"} THEN <<>> ELSE Str(item.new_name)

\* C4: the top-1 tuple is the evaluation of the first suggestion's name if
\* the suggestions value is a non-empty list whose first element is an
\* object with a present, non-null name, and the all-zero tuple otherwise,
\* also when later suggestions are valid; a falsy-looking name ("", "0", 0)
\* is valid and evaluated.
C4_TopOneIsFirstSuggestionOnly ==
  index >= 1 =>
    LET entries == EntriesOf(LastItem)
        expected ==
          IF entries # <<>> /\ ValidEntry(entries[1])
          THEN evaluate(GroundTruthOf(LastItem), Str(entries[1].name))
          ELSE MetricResult(0, Zero, Zero, Zero, Zero)
    IN /\ top_1_metric = expected
       /\ LastItem.performance_metrics.top_1_performance_metrics = expected

\* C4 witness: the first name is the empty string or the number 0 and its
\* evaluation is not the all-zero tuple
C4_Witness ==
  /\ index >= 1
  /\ EntriesOf(LastItem) # <<>>
  /\ EntriesOf(LastItem)[1] \in {JDict(JStr(<<>>)), JDict(JNum(0))}
  /\ top_1_metric.exact_match = 1

\* The suggestions value holds no valid entry: it is absent, not a list,
\* empty, or made of null-name, name-less and non-object entries only
NoValidEntry(item) ==
  \A i \in 1..Len(EntriesOf(item)) : ~ValidEntry(EntriesOf(item)[i])

\* C5: with zero valid candidates no candidate is evaluated and the top-5
\* result is the empty tuple, all five fields zero.
C5_NoValidCandidateGivesEmpty ==
  index >= 1 =>
    /\ NoValidEntry(LastItem) => valid_candidates = <<>>
    /\ valid_candidates = <<>> =>
         /\ top_5_results = <<>>
         /\ top_5_choice = 0
         /\ top_5_metric = MetricResult(0, Zero, Zero, Zero, Zero)
         /\ LastItem.performance_metrics.top_5_performance_metrics
              = MetricResult(0, Zero, Zero, Zero, Zero)

\* C5 witness: a processed list whose entries are a non-object, a name-less
\* object and a null-name object
C5_Witness ==
  /\ index >= 1
  /\ LET entries == EntriesOf(LastItem)
     IN /\ \E i \in 1..Len(entries) : entries[i] = Null
        /\ \E i \in 1..Len(entries) : entries[i] = JDict(Absent)
        /\ \E i \in 1..Len(entries) : entries[i] = JDict(Null)
        /\ NoValidEntry(LastItem)
  /\ top_5_metric.edit_similarity = Zero

\* 0 <= x <= 1
InUnitInterval(x) == RatLeq(Zero, x) /\ RatLeq(x, One)

WellFormedMetric(m) ==
  /\ m.exact_match \in {0, 1}
  /\ InUnitInterval(m.edit_similarity)
  /\ InUnitInterval(m.token_precision)
  /\ InUnitInterval(m.token_recall)
  /\ InUnitInterval(m.token_f1)

\* C6: every tuple evaluate produces and every tuple attached to a record
\* has exact_match in {0, 1} and its four other fields within [0, 1].
C6_MetricsWithinUnitInterval ==
  /\ WellFormedMetric(top_1_metric)
  /\ WellFormedMetric(top_5_metric)
  /\ \A i \in 1..Len(top_5_results) : WellFormedMetric(top_5_results[i])
  /\ \A i \in 1..index :
       /\ WellFormedMetric(results[i].performance_metrics.top_1_performance_metrics)
       /\ WellFormedMetric(results[i].performance_metrics.top_5_performance_metrics)

\* C6 witness: an attached tuple whose edit similarity, precision, recall
\* and F1 all lie strictly between 0 and 1
C6_Witness ==
  /\ index >= 1
  /\ LET m == LastItem.performance_metrics.top_1_performance_metrics
     IN /\ m.edit_similarity \notin {Zero, One}
        /\ m.token_precision \notin {Zero, One}
        /\ m.token_recall \notin {Zero, One}
        /\ m.token_f1 \notin {Zero, One}

\* The prediction strings evaluated by the last iteration with their tuples:
\* the top-5 candidates, and the first suggestion when it is valid
Evaluated ==
  {<<valid_candidates[i], top_5_results[i]>> : i \in 1..Len(valid_candidates)}
    \cup (IF index >= 1 /\ EntriesOf(LastItem) # <<>> /\ ValidEntry(EntriesOf(LastItem)[1])
          THEN {<<Str(EntriesOf(LastItem)[1].name), top_1_metric>>}
          ELSE {})

\* The size of the multiset intersection of two token lists: the occurrences
\* in g that find an occurrence of their own in p, the k-th occurrence of a
\* token being matched when p holds the token at least k times
Matched(g, p) ==
  Cardinality({i \in 1..Len(g) :
    Cardinality({j \in 1..i : g[j] = g[i]})
      <= Cardinality({j \in 1..Len(p) : p[j] = g[i]})})

\* C7: with G and P the token multisets and I the sum over all tokens of
\* min(G[t], P[t]), token_precision is I/|P| when |P| > 0 and 0 otherwise,
\* token_recall is I/|G| when |G| > 0 and 0 otherwise.
C7_PrecisionRecallOfMultisets ==
  \A e \in Evaluated :
    LET g == tokenize(ground_truth)
        p == tokenize(e[1])
        i == Matched(g, p)
    IN /\ e[2].token_precision = (IF Len(p) > 0 THEN Rat(i, Len(p)) ELSE Zero)
       /\ e[2].token_recall = (IF Len(g) > 0 THEN Rat(i, Len(g)) ELSE Zero)

\* C7 witness: two different strings in each of which the same token occurs
\* twice, so that I = 2 = |P| = |G|
C7_Witness ==
  /\ \E e \in Evaluated :
       LET g == tokenize(ground_truth)
           p == tokenize(e[1])
       IN /\ ground_truth # e[1]
          /\ Len(g) = 2 /\ g[1] = g[2]
          /\ p = g
          /\ e[2].token_precision = One
          /\ e[2].token_recall = One

\* C8: token_f1 is 1 when both strings have no tokens; otherwise 0 when
\* precision + recall is 0, and otherwise the harmonic mean 2pr/(p+r);
\* evaluate("", "") has token_f1 = 1 and exact_match = 1.
C8_TokenF1 ==
  \A e \in Evaluated :
    LET g == tokenize(ground_truth)
        p == tokenize(e[1])
        pr == e[2].token_precision
        rc == e[2].token_recall
        sum == <<pr[1] * rc[2] + rc[1] * pr[2], pr[2] * rc[2]>>
        f1 == e[2].token_f1
    IN /\ (g = <<>> /\ p = <<>>) => f1 = One
       /\ (~(g = <<>> /\ p = <<>>) /\ sum[1] = 0) => f1 = Zero
       /\ (~(g = <<>> /\ p = <<>>) /\ sum[1] # 0) =>
            \* f1 * (pr + rc) = 2 * pr * rc
            f1[1] * sum[1] * pr[2] * rc[2] = 2 * pr[1] * rc[1] * f1[2] * sum[2]
       /\ (ground_truth = <<>> /\ e[1] = <<>>) => (f1 = One /\ e[2].exact_match = 1)

\* C8 witness: two different strings without tokens, scored token_f1 = 1
C8_Witness ==
  \E e \in Evaluated :
    /\ ground_truth # e[1]
    /\ ground_truth # <<>>
    /\ tokenize(ground_truth) = <<>>
    /\ tokenize(e[1]) = <<>>
    /\ e[2].token_f1 = One
    /\ e[2].exact_match = 0

\* The last record has a null or absent new_name and its first suggestion
\* is named by the empty string
MissingGroundTruthEmptyName ==
  /\ index >= 1
  /\ LastItem.new_name.t \in {"absent", "null"}
  /\ EntriesOf(LastItem) # <<>>
  /\ EntriesOf(LastItem)[1] = JDict(JStr(<<>>))

\* C9 as stated: a null or absent new_name is scored as the empty string,
\* and empty against empty yields exact_match = 1 and edit_similarity,
\* token_precision, token_recall and token_f1 all equal to 1.
C9_EmptyAgainstEmptyAllOnes ==
  MissingGroundTruthEmptyName =>
    /\ ground_truth = <<>>
    /\ top_1_metric = MetricResult(1, One, One, One, One)

\* C9 amended: a null or absent new_name is scored as the empty string, and
\* empty against empty yields exact_match = 1, edit_similarity = 1 and
\* token_f1 = 1, while token_precision and token_recall are 0.
C9_EmptyAgainstEmpty ==
  /\ (index >= 1 /\ LastItem.new_name.t \in {"absent", "null"}) => ground_truth = <<>>
  /\ MissingGroundTruthEmptyName =>
       /\ top_1_metric = MetricResult(1, One, Zero, Zero, One)
       /\ top_5_metric = MetricResult(1, One, Zero, Zero, One)

\* C9 witness: a record with a null new_name and the suggestion "" scored
C9_Witness ==
  /\ MissingGroundTruthEmptyName
  /\ LastItem.new_name = Null
  /\ LastItem.performance_metrics.top_1_performance_metrics.exact_match = 1

\* The reference recurrence of the Levenshtein distance
RECURSIVE LevRef(_, _)
LevRef(a, b) ==
  IF a = <<>> THEN Len(b)
  ELSE IF b = <<>> THEN Len(a)
  ELSE Min3(LevRef(Tail(a), b) + 1,
            LevRef(a, Tail(b)) + 1,
            LevRef(Tail(a), Tail(b)) + (IF Head(a) = Head(b) THEN 0 ELSE 1))

\* C10: calculate_levenshtein_distance is the Levenshtein distance of the
\* reference recurrence in either order of its arguments, and the similarity
\* is 1 for equal strings and 1 - distance / max(len) otherwise.
C10_LevenshteinAndSimilarity ==
  \A e \in Evaluated :
    LET a == ground_truth
        b == e[1]
        d == LevRef(a, b)
    IN /\ calculate_levenshtein_distance(a, b) = d
       /\ calculate_levenshtein_distance(b, a) = d
       /\ e[2].edit_similarity =
            (IF a = b THEN One
             ELSE Rat(Max2(Len(a), Len(b)) - d, Max2(Len(a), Len(b))))

\* C10 witness: the first string is the shorter one, not empty, and the
\* distance is smaller than the longer length because a character matches
C10_Witness ==
  \E e \in Evaluated :
    /\ 0 < Len(ground_truth)
    /\ Len(ground_truth) < Len(e[1])
    /\ e[2].edit_similarity \notin {Zero, One}
    /\ calculate_levenshtein_distance(ground_truth, e[1]) = 2


\* The fields of a MetricTuple as rationals, in a fixed order
FieldsOf(m) ==
  <<<<m.exact_match, 1>>, m.edit_similarity, m.token_precision, m.token_recall,
    m.token_f1>>

\* The averages of one tier as rationals, in the same order
AverageFields(avg) ==
  <<avg.exact_match, avg.edit_similarity, avg.token_precision, avg.token_recall,
    avg.token_f1>>

\* The sum of field f of the tuples attached under key tier to the first n
\* records
RECURSIVE AttachedSum(_, _, _)
AttachedSum(tier, f, n) ==
  IF n = 0 THEN Zero
  ELSE LET m == IF tier = 1
                THEN results[n].performance_metrics.top_1_performance_metrics
                ELSE results[n].performance_metrics.top_5_performance_metrics
       IN RatAdd(AttachedSum(tier, f, n - 1), FieldsOf(m)[f])

\* C11: when process has handled all records, every field of each tier's
\* aggregate is the sum of that field over the attached tuples divided by
\* the record count, and is 0 when there is no record.
C11_AggregatesAreAverages ==
  pc = "done" =>
    LET n == Len(results)
        tiers == <<aggregates.top_1_performance_metrics,
                   aggregates.top_5_performance_metrics>>
    IN \A tier \in 1..2, f \in 1..5 :
         LET avg == AverageFields(tiers[tier])[f]
             sum == AttachedSum(tier, f, n)
         IN IF n = 0 THEN avg = Zero
            \* avg * n = sum
            ELSE avg[1] * n * sum[2] = sum[1] * avg[2]

\* C11 witness: three records of different scores, whose average recall
\* differs from the average precision
C11_Witness ==
  /\ pc = "done"
  /\ Len(results) = 3
  /\ aggregates.top_1_performance_metrics.token_recall
       # aggregates.top_1_performance_metrics.token_precision
  /\ aggregates.top_1_performance_metrics.token_f1 \notin {Zero, One}
  /\ aggregates.top_5_performance_metrics.exact_match = <<1, 3>>


\* C12: a second run over a document the first run annotated leaves the
\* same per-record top-1 and top-5 tuples and returns the same averages; the
\* annotations and sums of the first run do not enter the result.
C12_SecondRunRepeatsFirst ==
  run >= 2 =>
    /\ \A i \in 1..index :
         results[i].performance_metrics = first_output.results[i].performance_metrics
    /\ pc = "done" =>
         /\ results = first_output.results
         /\ aggregates = first_output.aggregates

\* C12 witness: the second run has finished on records of non-zero scores
C12_Witness ==
  /\ run = 2
  /\ pc = "done"
  /\ Len(results) >= 2
  /\ aggregates.top_5_performance_metrics.token_f1 \notin {Zero, One}


\* C13: the structure process returns, which main writes to the output
\* file, is the input document: it holds every record, each with its
\* performance_metrics of two tuples, and the aggregate averages at top level.
C13_OutputIsAnnotatedDocument ==
  pc = "done" =>
    /\ "aggregate_performance_metrics" \in DOMAIN final_output
    /\ final_output["aggregate_performance_metrics"] = aggregates
    /\ "results" \in DOMAIN final_output
    /\ Len(final_output["results"]) = Len(results)
    /\ \A i \in 1..Len(results) :
         final_output["results"][i].performance_metrics.t = "metrics"


\* The conditions main treats as fatal: no file, a file that cannot be read
\* or is not JSON, a document without the results list
FatalError == file.t \in {"missing", "unreadable", "invalid_json", "no_results"}

\* C14: on every fatal error main processes no record, writes no output
\* file, reports the failing condition and exits with a non-zero status.
C14_FatalErrorExitsNonZero ==
  (main_pc = "exited" /\ FatalError) =>
    /\ index = 0
    /\ output_file = Absent
    /\ reported # ""
    /\ exit_status # 0


\* Every record of the document is a JSON object, whatever its fields hold
AllRecordsAreObjects == \A i \in 1..Len(results) : results[i].t = "record"

\* The record has both tuples attached
Attached(item) ==
  /\ item.performance_metrics.t = "metrics"
  /\ WellFormedMetric(item.performance_metrics.top_1_performance_metrics)
  /\ WellFormedMetric(item.performance_metrics.top_5_performance_metrics)

\* suggestions is present and is not a list
NonListSuggestions(item) == item.suggestions.t \notin {"list", "absent"}

\* suggestions lists an entry that is not an object with a non-null name
MalformedEntry(item) ==
  /\ item.suggestions.t = "list"
  /\ \E k \in 1..Len(item.suggestions.items) : ~ValidEntry(item.suggestions.items[k])

\* C15: malformed suggestion data and a null or absent new_name never abort
\* process: on a document of object records it raises nothing, every record it
\* has passed has both tuples attached, and it ends with all records passed
\* and the averages computed.
C15_MalformedRecordsNeverAbort ==
  AllRecordsAreObjects =>
    /\ pc # "raised"
    /\ index <= Len(results)
    /\ \A i \in 1..index : Attached(results[i])
    /\ pc = "done" =>
         /\ index = Len(results)
         /\ aggregates # Absent
         /\ aggregates = _calculate_final_averages(accumulators, Len(results))

\* C15 witness: process has ended on three records, one with suggestions that
\* is not a list, one with a malformed entry, one without a new_name
C15_Witness ==
  /\ pc = "done"
  /\ Len(results) = 3
  /\ AllRecordsAreObjects
  /\ NonListSuggestions(results[1])
  /\ MalformedEntry(results[2])
  /\ results[3].new_name.t \in {"null", "absent"}
  /\ \A i \in 1..3 : Attached(results[i])


\* The identifier as step 3 of tokenize receives it
BeforeAcronyms(s) == ReplaceUnderscore(ReplaceNonWord(s))

\* Steps 4 and 5 of tokenize and the final split
OtherSteps(s) == SplitLower(SplitDigitLetter(SplitCamelCase(s)))

\* s with a space put before each position of B
RECURSIVE SpacedFrom(_, _, _)
SpacedFrom(s, i, B) ==
  IF i > Len(s) THEN <<>>
  ELSE (IF i \in B THEN <<" ">> ELSE <<>>) \o <<s[i]>> \o SpacedFrom(s, i + 1, B)

\* The positions of s that start an uppercase-then-lowercase pair and have
\* at least n uppercase letters right before them
PairsAfterRun(s, n) ==
  {i \in (n + 1)..(Len(s) - 1) :
     /\ s[i] \in AsciiUpper
     /\ s[i + 1] \in AsciiLower
     /\ \A m \in (i - n)..(i - 1) : s[m] \in AsciiUpper}

\* C16 as stated: where no uppercase-then-lowercase pair has two or more
\* uppercase letters before it, step 3 inserts no boundary and the tokens are
\* those of the other steps alone.
C16_NoBoundaryBelowTwoUpper ==
  (tok_pc = "returned" /\ identifier # <<>>) =>
    LET s == BeforeAcronyms(identifier)
    IN PairsAfterRun(s, 2) = {} =>
         /\ SplitAcronyms(s) = s
         /\ tokens = OtherSteps(s)

\* C16 amended: step 3 inserts a boundary exactly before each
\* uppercase-then-lowercase pair that has one or more uppercase letters
\* before it, and the tokens are those of the other steps on that string.
C16_BoundaryAfterOneOrMoreUpper ==
  (tok_pc = "returned" /\ identifier # <<>>) =>
    LET s == BeforeAcronyms(identifier)
    IN /\ SplitAcronyms(s) = SpacedFrom(s, 1, PairsAfterRun(s, 1))
       /\ tokens = OtherSteps(SpacedFrom(s, 1, PairsAfterRun(s, 1)))

\* C16 witness: one uppercase letter before the pair, and step 3 split there
C16_Witness ==
  /\ tok_pc = "returned"
  /\ PairsAfterRun(BeforeAcronyms(identifier), 1) # {}
  /\ PairsAfterRun(BeforeAcronyms(identifier), 2) = {}
  /\ tokens = <<<<"a">>, <<"a", "a">>>>

\* Letters and digits as step 1 classifies them
AnyLetter == AsciiLetter \cup UnicodeLower \cup UnicodeUpper
AnyDigit == AsciiDigit \cup UnicodeDigit

\* C17: no token tokenize returns holds a digit next to a letter, letters
\* and digits being those step 1 keeps.
C17_NoDigitNextToLetter ==
  tok_pc = "returned" =>
    \A k \in 1..Len(tokens) : \A j \in 1..(Len(tokens[k]) - 1) :
      /\ ~(tokens[k][j] \in AnyDigit /\ tokens[k][j + 1] \in AnyLetter)
      /\ ~(tokens[k][j] \in AnyLetter /\ tokens[k][j + 1] \in AnyDigit)


\* The two tuples attached to record i
TopOneOf(i) == results[i].performance_metrics.top_1_performance_metrics
TopFiveOf(i) == results[i].performance_metrics.top_5_performance_metrics

\* C18: the top-5 tuple of a record is never below its top-1 tuple under the
\* selection key, so its token_f1 is at least the top-1 token_f1, and the
\* average top-5 token_f1 is at least the average top-1 token_f1.
C18_TopFiveNotBelowTopOne ==
  /\ \A i \in 1..index :
       results[i].t = "record" =>
         /\ ~LexGreater(KeyOf(TopOneOf(i)), KeyOf(TopFiveOf(i)))
         /\ RatLeq(TopOneOf(i).token_f1, TopFiveOf(i).token_f1)
  /\ pc = "done" =>
       RatLeq(aggregates.top_1_performance_metrics.token_f1,
              aggregates.top_5_performance_metrics.token_f1)

\* C18 witness: a finished run with a record whose best candidate is the
\* first of several, one whose best candidate comes later, and averages that
\* differ
C18_Witness ==
  /\ pc = "done"
  /\ AllRecordsAreObjects
  /\ \E i \in 1..Len(results) :
       /\ TopOneOf(i) = TopFiveOf(i)
       /\ TopOneOf(i).token_f1 = One
       /\ results[i].suggestions.t = "list"
       /\ Len(results[i].suggestions.items) >= 2
  /\ \E i \in 1..Len(results) :
       LexGreater(KeyOf(TopFiveOf(i)), KeyOf(TopOneOf(i)))
  /\ RatLess(aggregates.top_1_performance_metrics.token_f1,
             aggregates.top_5_performance_metrics.token_f1)


\* _make_request_with_retries has returned or raised
RequestEnded == req_pc \in {"returned", "raised"}

\* What holds of the attempts made so far
RequestRetryInvariant ==
  \* at most max_retries GETs
  /\ Len(outcomes) <= max_retries
  \* an attempt is made again only after a 403 or a network exception
  /\ \A k \in 1..(Len(outcomes) - 1) : Retriable(outcomes[k])
  \* a 200 or a status other than 403 is returned at once
  /\ (Len(outcomes) > 0 /\ ~Retriable(outcomes[Len(outcomes)])) =>
       (req_pc = "returned" /\ returned = outcomes[Len(outcomes)])
  \* a wait is always followed by another attempt
  /\ req_pc = "sleeping" => (Len(waits) = Len(outcomes) /\ Len(outcomes) < max_retries)
  /\ req_pc = "loop" => Len(waits) = Len(outcomes)
  /\ RequestEnded => Len(waits) = Len(outcomes) - 1
  \* None is returned exactly after max_retries attempts that all failed
  /\ req_pc = "returned" =>
       (returned = Null <=>
          (Len(outcomes) = max_retries
             /\ \A k \in 1..max_retries : Retriable(outcomes[k])))

\* C19: whatever each GET ends in, _make_request_with_retries ends after at
\* most 3 GETs; it returns a response with a status other than 403 at once,
\* tries again only after a 403 or a network exception, waits only before
\* another attempt, and returns None exactly when 3 attempts failed.
C19_EndsWithinThreeAttempts == []RequestRetryInvariant /\ <>RequestEnded

\* C19 witness: None returned after a 403, a 403 and a network exception,
\* with the waits 61 and the one taken from the reset header
C19_Witness ==
  /\ req_pc = "returned"
  /\ returned = Null
  /\ Len(outcomes) = max_retries
  /\ outcomes[max_retries] = NetworkError
  /\ waits = <<61, 11>>

====
